---- MODULE Spec2Model ----
(***************************************************************************)
(* Model of autocon.py, the Streamlit contract-automation script.          *)
(*                                                                         *)
(* One behaviour of Spec is a sequence of script runs.  Streamlit runs the *)
(* whole script (module level, then main) once per user interaction; the   *)
(* session state, the st.cache_data / st.cache_resource memo tables and    *)
(* the file system survive from one run to the next, everything else is    *)
(* local to a run.  Texts are sequences of one-character strings so that   *)
(* strip(), lower(), split('\n') and endswith() are computed, not assumed. *)
(***************************************************************************)
EXTENDS Naturals, Integers, Sequences, FiniteSets, TLC

VARIABLES
    apiKey,            \* os.getenv('OPENAI_API_KEY') is set
    startDir,          \* the template directory as found when the process started
    dirExists,         \* os.path.exists(TEMPLATE_DIR)
    files,             \* TEMPLATE_DIR: filename -> content
    template_cache,    \* the module global template_cache
    loaded,            \* st.cache_resource entry of load_templates
    loadLlmCalls,      \* LLM calls made by load_templates
    session,           \* st.session_state: key -> value
    cache,             \* st.cache_data tables: step -> (argument -> result)
    contacts,          \* backend contacts of the memoized steps:
                       \*   step -> (argument -> [n, first])
    pc,                \* position of the running script
    runs,              \* script runs started so far
    button,            \* the interaction that triggered the run
    proposal,          \* main's local proposal
    template_type, template, populated_contract, risk_report,
    reviewed_contract, additional_risk_report, final_contract,
    word_file, pdf_file,
    tmpfiles,          \* temporary files of this run that exist on disk
    calls,             \* the operations this run has performed, in order
    aborted,           \* the run ended in the handler of line 402
    pdf                \* save_as_pdf's canvas and loop state (SpecPdf)

vars == <<apiKey, startDir, dirExists, files, template_cache, loaded, loadLlmCalls,
          session, cache, contacts, pc, runs, button, proposal,
          template_type, template, populated_contract, risk_report,
          reviewed_contract, additional_risk_report, final_contract,
          word_file, pdf_file, tmpfiles, calls, aborted, pdf>>

envVars == <<apiKey, startDir>>
fsVars == <<dirExists, files>>
storeVars == <<template_cache, loaded, loadLlmCalls>>
llmVars == <<cache, contacts>>
pipeVars == <<template_type, template, populated_contract, risk_report>>
reviewVars == <<reviewed_contract, additional_risk_report, final_contract>>
exportVars == <<word_file, pdf_file, tmpfiles>>

(***************************************************************************)
(* Bounds                                                                  *)
(***************************************************************************)
MaxRuns == 2
MaxPdfLines == 95

(***************************************************************************)
(* Texts                                                                   *)
(***************************************************************************)
Empty == << >>
None == <<"None">>
Default == <<"d", "e", "f", "a", "u", "l", "t">>
DotTxt == <<".", "t", "x", "t">>
Whitespace == {" ", "\n", "\t"}

LowerChar(c) ==
    CASE c = "A" -> "a"
      [] c = "B" -> "b"
      [] c = "L" -> "l"
      [] c = "T" -> "t"
      [] OTHER -> c

Lower(s) == [i \in 1..Len(s) |-> LowerChar(s[i])]

RECURSIVE LStrip(_)
LStrip(s) ==
    IF s # Empty /\ Head(s) \in Whitespace THEN LStrip(Tail(s)) ELSE s

RECURSIVE RStrip(_)
RStrip(s) ==
    IF s # Empty /\ s[Len(s)] \in Whitespace
    THEN RStrip(SubSeq(s, 1, Len(s) - 1))
    ELSE s

Strip(s) == RStrip(LStrip(s))

EndsWith(s, suffix) ==
    /\ Len(s) >= Len(suffix)
    /\ SubSeq(s, Len(s) - Len(suffix) + 1, Len(s)) = suffix

\* filename[:-4]
DropLast4(s) == IF Len(s) <= 4 THEN Empty ELSE SubSeq(s, 1, Len(s) - 4)

\* Python truthiness of a session value or a returned string
Truthy(v) == v # None /\ v # Empty

EmptyMap == [k \in {} |-> Empty]
Put(m, k, v) == [x \in DOMAIN m \cup {k} |-> IF x = k THEN v ELSE m[x]]

(***************************************************************************)
(* Inputs                                                                  *)
(***************************************************************************)
Proposals == {Empty, <<"p">>, <<"q">>}
Edits == {<<"e">>}

\* What the completion endpoint may answer to a step's prompt: the content of
\* the first choice, untrimmed and in any case; or the call raises.
RepliesOf(step) ==
    IF step = "risk_check" THEN {<<" ", "A", " ">>, <<"b">>} ELSE {<<" ", "A", " ">>}
BackendOutcomes(step) ==
    {[ok |-> FALSE, content |-> Empty]}
        \cup {[ok |-> TRUE, content |-> r] : r \in RepliesOf(step)}

StartDirs == {"absent", "empty", "populated"}
PopulatedFiles ==
    (<<"a", ".", "t", "x", "t">> :> <<"T">>) @@ (<<"n", ".", "m", "d">> :> <<"x">>)

(***************************************************************************)
(* The LLM steps (ContractProcessor's five prompt functions)               *)
(***************************************************************************)
Steps == {"classify", "generate_template", "populate", "risk_check", "finalize"}

\* the functions decorated with @st.cache_data
Memoized(step) == step \in {"classify", "populate", "risk_check", "finalize"}

\* the value returned from a step's except branch
Fallback(step) == IF step = "classify" THEN Default ELSE Empty

\* what a step returns for the content of the first choice
Post(step, content) ==
    IF step = "classify" THEN Lower(Strip(content)) ELSE Strip(content)

RaisesOnFailure(step, o) == ~o.ok

\* every step catches Exception around its backend call: nothing propagates
Raises(step, o) == FALSE

\* the body of a step: the backend round trip inside try/except
Body(step, o) == IF o.ok THEN Post(step, o.content) ELSE Fallback(step)

StoreOnlySuccess(table, arg, out, failed) ==
    IF failed THEN table ELSE Put(table, arg, out)

\* st.cache_data keeps whatever the function returned, its fallback included
Store(table, arg, out, failed) == Put(table, arg, out)

Contacted(table, arg, out) ==
    IF arg \in DOMAIN table
    THEN [table EXCEPT ![arg].n = @ + 1]
    ELSE Put(table, arg, [n |-> 1, first |-> out])

\* One invocation of a step with argument arg when the backend would answer o.
Invoke(step, arg, o) ==
    LET hit == Memoized(step) /\ arg \in DOMAIN cache[step]
        out == IF hit THEN cache[step][arg] ELSE Body(step, o)
        failed == ~hit /\ ~o.ok
    IN  [out |-> out,
         raised |-> ~hit /\ Raises(step, o),
         cache |-> IF Memoized(step) /\ ~hit
                   THEN [cache EXCEPT ![step] = Store(@, arg, out, failed)]
                   ELSE cache,
         contacts |-> IF hit \/ ~Memoized(step) THEN contacts
                      ELSE [contacts EXCEPT ![step] = Contacted(@, arg, out)],
         rec |-> [step |-> step, arg |-> arg, out |-> out, backend |-> ~hit,
                  failed |-> failed,
                  raw |-> IF ~hit /\ o.ok THEN o.content ELSE Empty]]

\* an operation of the exporter or of the cleanup, as logged in calls
Op(step, arg, out, failed) ==
    [step |-> step, arg |-> arg, out |-> out, backend |-> FALSE,
     failed |-> failed, raw |-> Empty]

(***************************************************************************)
(* Initial state: the process has started, no script run yet               *)
(***************************************************************************)
PdfIdle == [phase |-> "off"]

Init ==
    /\ apiKey \in BOOLEAN
    /\ startDir \in StartDirs
    /\ dirExists = (startDir # "absent")
    /\ files = IF startDir = "populated" THEN PopulatedFiles ELSE EmptyMap
    /\ template_cache = EmptyMap
    /\ loaded = [done |-> FALSE, value |-> EmptyMap, ioError |-> FALSE]
    /\ loadLlmCalls = 0
    /\ session = EmptyMap
    /\ cache = [s \in Steps |-> EmptyMap]
    /\ contacts = [s \in Steps |-> EmptyMap]
    /\ pc = "idle"
    /\ runs = 0
    /\ button = "none"
    /\ proposal = Empty
    /\ template_type = Empty /\ template = Empty
    /\ populated_contract = Empty /\ risk_report = Empty
    /\ reviewed_contract = Empty /\ additional_risk_report = Empty
    /\ final_contract = Empty
    /\ word_file = Empty /\ pdf_file = Empty
    /\ tmpfiles = {}
    /\ calls = << >>
    /\ aborted = FALSE
    /\ pdf = PdfIdle

(***************************************************************************)
(* A script run: module level, then main()                                 *)
(***************************************************************************)
HasContract == "populated_contract" \in DOMAIN session
                  /\ Truthy(session["populated_contract"])

\* lines 24-32, run again at the start of every script run.  b is the button
\* whose press started the run ("view": none); whether the analysis button
\* is there to be pressed is decided by line 318, in Review.
ModuleLevel(b) ==
    /\ pc = "idle"
    /\ runs < MaxRuns
    /\ pc' = "main"
    /\ runs' = runs + 1
    /\ button' = b
    /\ dirExists' = TRUE
    /\ template_cache' = EmptyMap
    /\ proposal' = Empty
    /\ template_type' = Empty /\ template' = Empty
    /\ populated_contract' = Empty /\ risk_report' = Empty
    /\ reviewed_contract' = Empty /\ additional_risk_report' = Empty
    /\ final_contract' = Empty
    /\ word_file' = Empty /\ pdf_file' = Empty
    /\ tmpfiles' = {}
    /\ calls' = << >>
    /\ aborted' = FALSE
    /\ UNCHANGED <<envVars, files, loaded, loadLlmCalls, session, llmVars, pdf>>

AlwaysConfigured == TRUE

\* line 259: os.getenv('OPENAI_API_KEY') is truthy
KeyConfigured == apiKey

\* lines 258-261
CheckApiKey ==
    /\ pc = "main"
    /\ pc' = IF KeyConfigured THEN "init" ELSE "idle"
    /\ UNCHANGED <<envVars, fsVars, storeVars, session, llmVars, runs, button, proposal,
                   pipeVars, reviewVars, exportVars, calls, aborted, pdf>>

\* lines 265-269
InitSession ==
    /\ pc = "init"
    /\ session' =
         LET s1 == IF "populated_contract" \in DOMAIN session THEN session
                   ELSE Put(session, "populated_contract", None)
         IN  IF "initial_risk_report" \in DOMAIN s1 THEN s1
             ELSE Put(s1, "initial_risk_report", None)
    /\ pc' = "load"
    /\ UNCHANGED <<envVars, fsVars, storeVars, llmVars, runs, button, proposal,
                   pipeVars, reviewVars, exportVars, calls, aborted, pdf>>

TxtFiles == {f \in DOMAIN files : EndsWith(f, DotTxt)}
ReadTemplates == [n \in {DropLast4(f) : f \in TxtFiles} |->
                    files[CHOOSE f \in TxtFiles : DropLast4(f) = n]]

\* line 272: load_templates under st.cache_resource (lines 36-55).  An I/O
\* error is taken at the first file-system call of the branch.
LoadTemplates ==
    /\ pc = "load"
    /\ pc' = "input"
    /\ IF loaded.done
       THEN UNCHANGED <<fsVars, storeVars, llmVars>>
       ELSE \E io \in {"ok", "error"}, o \in BackendOutcomes("generate_template") :
              IF io = "error"
              THEN /\ loaded' = [done |-> TRUE, value |-> EmptyMap, ioError |-> TRUE]
                   /\ UNCHANGED <<fsVars, template_cache, loadLlmCalls, llmVars>>
              ELSE IF ~dirExists
              THEN LET r == Invoke("generate_template", Default, o)
                       tc == Put(template_cache, Default, r.out)
                   IN  /\ dirExists' = TRUE
                       /\ files' = Put(files, Default \o DotTxt, r.out)
                       /\ template_cache' = tc
                       /\ loaded' = [done |-> TRUE, value |-> tc, ioError |-> FALSE]
                       /\ loadLlmCalls' = loadLlmCalls + 1
                       /\ cache' = r.cache
                       /\ contacts' = r.contacts
              ELSE LET tc == ReadTemplates @@ template_cache
                   IN  /\ template_cache' = tc
                       /\ loaded' = [done |-> TRUE, value |-> tc, ioError |-> FALSE]
                       /\ UNCHANGED <<fsVars, loadLlmCalls, llmVars>>
    /\ UNCHANGED <<envVars, session, runs, button, proposal,
                   pipeVars, reviewVars, exportVars, calls, aborted, pdf>>

\* lines 277-307: the proposal comes from the text area or from the upload
\* (empty when nothing was entered or the file could not be read)
Input(p) ==
    /\ pc = "input"
    /\ proposal' = p
    /\ pc' = IF button = "process" /\ p # Empty THEN "classify" ELSE "review"
    /\ UNCHANGED <<envVars, fsVars, storeVars, session, llmVars, runs, button,
                   pipeVars, reviewVars, exportVars, calls, aborted, pdf>>

(***************************************************************************)
(* process_proposal (lines 235-249)                                        *)
(***************************************************************************)
\* lines 247-249: the handler of process_proposal
ProposalHandler ==
    /\ template_type' = Default
    /\ populated_contract' = Empty
    /\ risk_report' = Empty
    /\ pc' = "store"

\* line 240
ClassifyTemplate ==
    /\ pc = "classify"
    /\ \E o \in BackendOutcomes("classify") :
         LET r == Invoke("classify", proposal, o)
         IN  /\ cache' = r.cache
             /\ contacts' = r.contacts
             /\ calls' = Append(calls, r.rec)
             /\ IF r.raised
                THEN ProposalHandler /\ UNCHANGED template
                ELSE /\ template_type' = r.out
                     /\ pc' = "generate"
                     /\ UNCHANGED <<template, populated_contract, risk_report>>
    /\ UNCHANGED <<envVars, fsVars, storeVars, session, runs, button, proposal,
                   reviewVars, exportVars, aborted, pdf>>

\* line 241
GenerateTemplate ==
    /\ pc = "generate"
    /\ \E o \in BackendOutcomes("generate_template") :
         LET r == Invoke("generate_template", template_type, o)
         IN  /\ cache' = r.cache
             /\ contacts' = r.contacts
             /\ calls' = Append(calls, r.rec)
             /\ IF r.raised
                THEN ProposalHandler /\ UNCHANGED template
                ELSE /\ template' = r.out
                     /\ pc' = "populate"
                     /\ UNCHANGED <<template_type, populated_contract, risk_report>>
    /\ UNCHANGED <<envVars, fsVars, storeVars, session, runs, button, proposal,
                   reviewVars, exportVars, aborted, pdf>>

TemplateFromStore ==
    IF template_type \in DOMAIN loaded.value THEN loaded.value[template_type]
    ELSE template

\* line 242: the template handed to populate_template
TemplateForPopulate == template

\* line 242
PopulateTemplate ==
    /\ pc = "populate"
    /\ \E o \in BackendOutcomes("populate") :
         LET r == Invoke("populate", <<TemplateForPopulate, proposal>>, o)
         IN  /\ cache' = r.cache
             /\ contacts' = r.contacts
             /\ calls' = Append(calls, r.rec)
             /\ IF r.raised
                THEN ProposalHandler /\ UNCHANGED template
                ELSE /\ populated_contract' = r.out
                     /\ pc' = "risk"
                     /\ UNCHANGED <<template_type, template, risk_report>>
    /\ UNCHANGED <<envVars, fsVars, storeVars, session, runs, button, proposal,
                   reviewVars, exportVars, aborted, pdf>>

\* lines 243-246
RiskComplianceCheck ==
    /\ pc = "risk"
    /\ \E o \in BackendOutcomes("risk_check") :
         LET r == Invoke("risk_check", populated_contract, o)
         IN  /\ cache' = r.cache
             /\ contacts' = r.contacts
             /\ calls' = Append(calls, r.rec)
             /\ IF r.raised
                THEN ProposalHandler /\ UNCHANGED template
                ELSE /\ risk_report' = r.out
                     /\ pc' = "store"
                     /\ UNCHANGED <<template_type, template, populated_contract>>
    /\ UNCHANGED <<envVars, fsVars, storeVars, session, runs, button, proposal,
                   reviewVars, exportVars, aborted, pdf>>

(***************************************************************************)
(* main after the pipeline (lines 309-397)                                 *)
(***************************************************************************)
KeepUnlessEmpty ==
    IF populated_contract = Empty THEN session
    ELSE Put(Put(session, "populated_contract", populated_contract),
             "initial_risk_report", risk_report)

\* lines 315-316
SessionAfterProcess ==
    Put(Put(session, "populated_contract", populated_contract),
        "initial_risk_report", risk_report)

\* lines 309-316; template_type is shown with st.info and kept nowhere
StoreResults ==
    /\ pc = "store"
    /\ session' = SessionAfterProcess
    /\ pc' = "review"
    /\ UNCHANGED <<envVars, fsVars, storeVars, llmVars, runs, button, proposal,
                   pipeVars, reviewVars, exportVars, calls, aborted, pdf>>

\* lines 318-342: the review area; the text area holds the session's contract
\* or what the user typed over it
Review ==
    /\ pc = "review"
    /\ IF HasContract
       THEN /\ reviewed_contract' \in {session["populated_contract"]} \cup Edits
            /\ pc' = IF button = "analyze" THEN "recheck" ELSE "idle"
       ELSE /\ pc' = "idle"
            /\ UNCHANGED reviewed_contract
    /\ UNCHANGED <<envVars, fsVars, storeVars, session, llmVars, runs, button, proposal,
                   pipeVars, additional_risk_report, final_contract, exportVars,
                   calls, aborted, pdf>>

StoreRecheck(report) == Put(session, "initial_risk_report", report)

\* line 344 assigns the local additional_risk_report only
SessionAfterRecheck(report) == session

\* line 344
RiskRecheck ==
    /\ pc = "recheck"
    /\ \E o \in BackendOutcomes("risk_check") :
         LET r == Invoke("risk_check", reviewed_contract, o)
         IN  /\ cache' = r.cache
             /\ contacts' = r.contacts
             /\ calls' = Append(calls, r.rec)
             /\ additional_risk_report' = r.out
             /\ session' = SessionAfterRecheck(r.out)
             /\ IF r.raised
                THEN aborted' = TRUE /\ pc' = "idle"
                ELSE aborted' = aborted /\ pc' = "finalize"
    /\ UNCHANGED <<envVars, fsVars, storeVars, runs, button, proposal,
                   pipeVars, reviewed_contract, final_contract, exportVars, pdf>>

\* line 345
GenerateFinalContract ==
    /\ pc = "finalize"
    /\ \E o \in BackendOutcomes("finalize") :
         LET r == Invoke("finalize", reviewed_contract, o)
         IN  /\ cache' = r.cache
             /\ contacts' = r.contacts
             /\ calls' = Append(calls, r.rec)
             /\ final_contract' = r.out
             /\ IF r.raised
                THEN aborted' = TRUE /\ pc' = "idle"
                ELSE aborted' = aborted /\ pc' = "save_word"
    /\ UNCHANGED <<envVars, fsVars, storeVars, session, runs, button, proposal,
                   pipeVars, reviewed_contract, additional_risk_report, exportVars, pdf>>

(***************************************************************************)
(* Export and cleanup (lines 186-233, 362-397)                             *)
(***************************************************************************)
WordPath == <<"t", "m", "p", ".", "d", "o", "c", "x">>
PdfPath == <<"t", "m", "p", ".", "p", "d", "f">>

\* "ok": the file is written and its name returned; "save_failed": the
\* temporary file exists and writing the document into it raised;
\* "no_file": the failure came before the temporary file was created
SaveOutcomes == {"ok", "save_failed", "no_file"}

ExportReviewed == reviewed_contract

\* lines 367 and 379: the text handed to save_as_word and save_as_pdf
ExportText == final_contract

\* line 367: save_as_word (lines 186-199)
SaveAsWord ==
    /\ pc = "save_word"
    /\ \E w \in SaveOutcomes :
         /\ word_file' = IF w = "ok" THEN WordPath ELSE Empty
         /\ tmpfiles' = IF w = "no_file" THEN tmpfiles ELSE tmpfiles \cup {WordPath}
         /\ calls' = Append(calls, Op("save_as_word", ExportText, word_file', w # "ok"))
    /\ pc' = "offer_word"
    /\ UNCHANGED <<envVars, fsVars, storeVars, session, llmVars, runs, button, proposal,
                   pipeVars, reviewVars, pdf_file, aborted, pdf>>

\* lines 368-376: open() is not guarded; its failure leaves main
OfferWord ==
    /\ pc = "offer_word"
    /\ IF Truthy(word_file)
       THEN \E opened \in BOOLEAN :
              /\ aborted' = ~opened
              /\ pc' = IF opened THEN "save_pdf" ELSE "idle"
       ELSE aborted' = aborted /\ pc' = "save_pdf"
    /\ UNCHANGED <<envVars, fsVars, storeVars, session, llmVars, runs, button, proposal,
                   pipeVars, reviewVars, exportVars, calls, pdf>>

\* line 379: save_as_pdf (lines 201-233)
SaveAsPdf ==
    /\ pc = "save_pdf"
    /\ \E w \in SaveOutcomes :
         /\ pdf_file' = IF w = "ok" THEN PdfPath ELSE Empty
         /\ tmpfiles' = IF w = "no_file" THEN tmpfiles ELSE tmpfiles \cup {PdfPath}
         /\ calls' = Append(calls, Op("save_as_pdf", ExportText, pdf_file', w # "ok"))
    /\ pc' = "offer_pdf"
    /\ UNCHANGED <<envVars, fsVars, storeVars, session, llmVars, runs, button, proposal,
                   pipeVars, reviewVars, word_file, aborted, pdf>>

\* lines 380-388
OfferPdf ==
    /\ pc = "offer_pdf"
    /\ IF Truthy(pdf_file)
       THEN \E opened \in BOOLEAN :
              /\ aborted' = ~opened
              /\ pc' = IF opened THEN "cleanup" ELSE "idle"
       ELSE aborted' = aborted /\ pc' = "cleanup"
    /\ UNCHANGED <<envVars, fsVars, storeVars, session, llmVars, runs, button, proposal,
                   pipeVars, reviewVars, exportVars, calls, pdf>>

\* lines 390-397: an unlink that raises ends the try block
Cleanup ==
    /\ pc = "cleanup"
    /\ \E unlinkWord \in BOOLEAN, unlinkPdf \in BOOLEAN :
         LET tryWord == Truthy(word_file) /\ word_file \in tmpfiles
             afterWord == IF tryWord /\ unlinkWord THEN tmpfiles \ {word_file}
                          ELSE tmpfiles
             raised == tryWord /\ ~unlinkWord
             tryPdf == ~raised /\ Truthy(pdf_file) /\ pdf_file \in afterWord
         IN  /\ tmpfiles' = IF tryPdf /\ unlinkPdf THEN afterWord \ {pdf_file}
                            ELSE afterWord
             /\ calls' = Append(calls, Op("cleanup", Empty, Empty,
                                          raised \/ (tryPdf /\ ~unlinkPdf)))
    /\ pc' = "idle"
    /\ UNCHANGED <<envVars, fsVars, storeVars, session, llmVars, runs, button, proposal,
                   pipeVars, reviewVars, word_file, pdf_file, aborted, pdf>>

Next ==
    \/ \E b \in {"view", "process", "analyze"} : ModuleLevel(b)
    \/ CheckApiKey
    \/ InitSession
    \/ LoadTemplates
    \/ \E p \in Proposals : Input(p)
    \/ ClassifyTemplate
    \/ GenerateTemplate
    \/ PopulateTemplate
    \/ RiskComplianceCheck
    \/ StoreResults
    \/ Review
    \/ RiskRecheck
    \/ GenerateFinalContract
    \/ SaveAsWord
    \/ OfferWord
    \/ SaveAsPdf
    \/ OfferPdf
    \/ Cleanup

Spec == Init /\ [][Next]_vars

(***************************************************************************)
(* save_as_pdf (lines 201-233), one canvas operation at a time             *)
(***************************************************************************)
PageHeight == 792       \* reportlab's letter is 612 x 792 points
Margin == 40
TitleStep == 30
LineStep == 15

\* The texts save_as_pdf is run on: n + 1 lines joined by "\n", line i being
\* LineOf(pattern, i).
Patterns == {"blank", "same", "mixed"}

LineOf(pattern, i) ==
    CASE pattern = "blank" -> Empty
      [] pattern = "same" -> <<"a">>
      [] OTHER -> IF i % 3 = 0 THEN <<"a", " ", "b">>
                  ELSE IF i % 3 = 1 THEN Empty ELSE <<"c">>

\* lines lo..hi of the text, joined by "\n"
RECURSIVE JoinLines(_, _, _)
JoinLines(pattern, lo, hi) ==
    IF lo = hi THEN LineOf(pattern, lo)
    ELSE LET mid == (lo + hi) \div 2
         IN  JoinLines(pattern, lo, mid) \o <<"\n">> \o JoinLines(pattern, mid + 1, hi)

BuildText(pattern, n) == JoinLines(pattern, 0, n)

\* contract.split('\n'): the pieces between consecutive newlines, one more
\* than there are newlines
SplitLines(s) ==
    LET NL == {i \in 1..Len(s) : s[i] = "\n"}
        count == Cardinality(NL)
        nth(k) == CHOOSE i \in NL : Cardinality({j \in NL : j <= i}) = k
    IN  [k \in 1..(count + 1) |->
            SubSeq(s, IF k = 1 THEN 1 ELSE nth(k - 1) + 1,
                      IF k = count + 1 THEN Len(s) ELSE nth(k) - 1)]

NewPageBelowZero(y) == y < 0

\* line 223
NewPageNeeded(y) == y < Margin

InitPdf ==
    /\ apiKey = TRUE
    /\ startDir = "empty"
    /\ dirExists = TRUE
    /\ files = EmptyMap
    /\ template_cache = EmptyMap
    /\ loaded = [done |-> FALSE, value |-> EmptyMap, ioError |-> FALSE]
    /\ loadLlmCalls = 0
    /\ session = EmptyMap
    /\ cache = [s \in Steps |-> EmptyMap]
    /\ contacts = [s \in Steps |-> EmptyMap]
    /\ pc = "save_pdf"
    /\ runs = 0
    /\ button = "analyze"
    /\ proposal = Empty
    /\ template_type = Empty /\ template = Empty
    /\ populated_contract = Empty /\ risk_report = Empty
    /\ reviewed_contract = Empty /\ additional_risk_report = Empty
    /\ final_contract = Empty
    /\ word_file = Empty /\ pdf_file = Empty
    /\ tmpfiles = {}
    /\ calls = << >>
    /\ aborted = FALSE
    /\ \E pattern \in Patterns, n \in 0..MaxPdfLines :
         pdf = [phase |-> "open", pattern |-> pattern, n |-> n,
                contract |-> BuildText(pattern, n),
                lines |-> << >>, i |-> 0, y |-> 0, page |-> 0,
                titleY |-> 0, stampY |-> 0, drawn |-> << >>]

notPdf == <<apiKey, startDir, dirExists, files, template_cache, loaded, loadLlmCalls,
            session, cache, contacts, pc, runs, button, proposal,
            template_type, template, populated_contract, risk_report,
            reviewed_contract, additional_risk_report, final_contract,
            word_file, pdf_file, tmpfiles, calls, aborted>>

\* lines 205-222: the canvas, the title and the timestamp
PdfOpen ==
    /\ pdf.phase = "open"
    /\ pdf' = [pdf EXCEPT !.phase = "body",
                          !.page = 1,
                          !.titleY = PageHeight - Margin,
                          !.stampY = PageHeight - Margin - TitleStep,
                          !.y = PageHeight - Margin - TitleStep - TitleStep,
                          !.lines = SplitLines(pdf.contract),
                          !.i = 1]
    /\ UNCHANGED notPdf

\* lines 222-227: one iteration of the loop over the lines
PdfDrawLine ==
    /\ pdf.phase = "body"
    /\ pdf.i <= Len(pdf.lines)
    /\ LET brk == NewPageNeeded(pdf.y)
           y == IF brk THEN PageHeight - Margin ELSE pdf.y
           page == IF brk THEN pdf.page + 1 ELSE pdf.page
       IN  pdf' = [pdf EXCEPT !.drawn = Append(@, [text |-> pdf.lines[pdf.i],
                                                    y |-> y, page |-> page]),
                              !.page = page,
                              !.y = y - LineStep,
                              !.i = @ + 1]
    /\ UNCHANGED notPdf

\* lines 229-230
PdfSave ==
    /\ pdf.phase = "body"
    /\ pdf.i > Len(pdf.lines)
    /\ pdf' = [pdf EXCEPT !.phase = "done"]
    /\ UNCHANGED notPdf

NextPdf == PdfOpen \/ PdfDrawLine \/ PdfSave

SpecPdf == InitPdf /\ [][NextPdf]_vars

(***************************************************************************)
(* Properties                                                              *)
(***************************************************************************)
Pipeline == <<"classify", "generate_template", "populate", "risk_check">>
ExportOrder == <<"risk_check", "finalize", "save_as_word", "save_as_pdf", "cleanup">>
ProcessReturned == button = "process" /\ proposal # Empty
                      /\ pc \in {"store", "review", "idle"}
Answered(c) == c.backend /\ ~c.failed

\* what strip() leaves of the answers the backend gives
Trimmed(raw) ==
    CASE raw = <<" ", "A", " ">> -> <<"A">>
      [] raw = <<"b">> -> <<"b">>
      [] OTHER -> raw

\* C1: a run of process_proposal performs classify, generate_template,
\* populate, risk-check in this order and nothing else; each step's argument
\* is the previous step's output of the same run (populate gets the template
\* generate_template returned for the classify output, never one of the
\* Template Store), and once process_proposal has returned all four ran.
C1_PipelineOrder ==
    button = "process" =>
      /\ Len(calls) <= 4
      /\ \A i \in 1..Len(calls) : calls[i].step = Pipeline[i]
      /\ Len(calls) >= 1 => calls[1].arg = proposal
      /\ Len(calls) >= 2 => calls[2].arg = calls[1].out
      /\ Len(calls) >= 3 => calls[3].arg = <<calls[2].out, proposal>>
      /\ Len(calls) >= 4 => calls[4].arg = calls[3].out
      /\ pc = "classify" => Len(calls) = 0
      /\ pc = "generate" => Len(calls) = 1
      /\ pc = "populate" => Len(calls) = 2
      /\ pc = "risk" => Len(calls) = 3
      /\ ProcessReturned => Len(calls) = 4

\* C1 witness: process_proposal has returned, the classify output names a
\* template of the Template Store, and populate was given the generated one.
C1_Witness ==
    /\ button = "process" /\ pc = "store" /\ Len(calls) = 4
    /\ calls[1].out \in DOMAIN loaded.value
    /\ calls[3].arg[1] = calls[2].out
    /\ calls[3].arg[1] # loaded.value[calls[1].out]

\* C2: a step whose backend call fails returns "default" (classify) or the
\* empty string (every other step); process_proposal still runs all four
\* steps, each later one on the fallback value, and the additional analysis
\* still runs finalize after a failed risk re-check.
C2_FailOpen ==
    /\ \A i \in 1..Len(calls) :
         (calls[i].step \in Steps /\ calls[i].failed) =>
            calls[i].out = IF calls[i].step = "classify"
                           THEN <<"d", "e", "f", "a", "u", "l", "t">> ELSE << >>
    /\ ProcessReturned =>
         /\ Len(calls) = 4
         /\ calls[2].arg = calls[1].out
         /\ calls[3].arg[1] = calls[2].out
         /\ calls[4].arg = calls[3].out
         /\ template_type = calls[1].out
         /\ populated_contract = calls[3].out
         /\ risk_report = calls[4].out
    /\ (button = "analyze" /\ Len(calls) >= 1 /\ pc # "finalize") =>
         (Len(calls) >= 2 /\ calls[2].step = "finalize"
            /\ calls[2].arg = reviewed_contract)

\* C2 witness: classify failed, process_proposal went on and generated a
\* template for "default", and has returned.
C2_Witness ==
    /\ ProcessReturned /\ pc = "store" /\ Len(calls) = 4
    /\ calls[1].failed /\ calls[2].arg = Default
    /\ calls[3].failed /\ calls[4].arg = Empty

\* C3: when the template directory was empty or absent at start-up and no
\* file-system call failed, load_templates yields exactly one entry, named
\* "default", made by one LLM call and written to default.txt.
C3_DefaultSynthesized ==
    (loaded.done /\ ~loaded.ioError /\ startDir \in {"absent", "empty"}) =>
      /\ DOMAIN loaded.value = {Default}
      /\ loadLlmCalls = 1
      /\ (Default \o DotTxt) \in DOMAIN files

\* C4 as stated: after Process, with the backend answering T, C and R, the
\* session state holds template_type = T, contract = C and risk report = R.
C4_SessionHoldsAnswers ==
    (button = "process" /\ pc = "review" /\ Len(calls) = 4
        /\ Answered(calls[1]) /\ Answered(calls[3]) /\ Answered(calls[4])) =>
      /\ "template_type" \in DOMAIN session
      /\ session["template_type"] = calls[1].raw
      /\ session["populated_contract"] = calls[3].raw
      /\ session["initial_risk_report"] = calls[4].raw

\* C4 amended: after Process with a non-empty proposal the session state has
\* the two keys populated_contract and initial_risk_report only, holding this
\* run's populate and risk-check outputs (the backend's answers trimmed, a
\* memoized result, or the fallback), whatever it held before; the template
\* type, the trimmed and lower-cased answer, is a local that is displayed.
C4_SessionAfterProcess ==
    (button = "process" /\ pc = "review" /\ proposal # Empty) =>
      /\ Len(calls) = 4
      /\ DOMAIN session = {"populated_contract", "initial_risk_report"}
      /\ session["populated_contract"] = calls[3].out
      /\ session["initial_risk_report"] = calls[4].out
      /\ template_type = calls[1].out
      /\ Answered(calls[1]) => calls[1].out = Lower(Trimmed(calls[1].raw))
      /\ Answered(calls[3]) => calls[3].out = Trimmed(calls[3].raw)
      /\ Answered(calls[4]) => calls[4].out = Trimmed(calls[4].raw)
      /\ calls[3].failed => session["populated_contract"] = << >>
      /\ calls[4].failed => session["initial_risk_report"] = << >>

\* C4 witness: a second pipeline run whose populate step failed has put the
\* empty string over the contract "A" an earlier run produced, and its trimmed
\* risk answer over the earlier report.
C4_Witness ==
    /\ button = "process" /\ pc = "review" /\ Len(calls) = 4 /\ runs = 2
    /\ \E k \in DOMAIN cache["populate"] : cache["populate"][k] = <<"A">>
    /\ calls[3].failed /\ session["populated_contract"] = Empty
    /\ Answered(calls[4]) /\ calls[4].raw = <<" ", "A", " ">>
    /\ session["initial_risk_report"] = <<"A">>

\* C5 as stated: once the user has edited the contract and run the additional
\* analysis, the session's risk report is the risk-check output for the
\* edited text.
C5_SessionRiskFollowsEdit ==
    (button = "analyze" /\ Len(calls) >= 1
        /\ reviewed_contract # session["populated_contract"]) =>
      session["initial_risk_report"] = calls[1].out

\* C5 amended: the session's risk report is the risk-check result of the
\* contract text the session holds, which is the last pipeline run's populate
\* output; the additional analysis computes the report for the edited text
\* without storing either in the session state.
C5_RiskOfSessionContract ==
    ("populated_contract" \in DOMAIN session
        /\ session["populated_contract"] # None) =>
      /\ session["populated_contract"] \in DOMAIN cache["risk_check"]
      /\ session["initial_risk_report"]
           = cache["risk_check"][session["populated_contract"]]

\* C5 witness: the additional analysis has produced, for an edited contract,
\* a report other than the one the session holds.
C5_Witness ==
    /\ button = "analyze" /\ pc = "finalize" /\ Len(calls) = 1
    /\ reviewed_contract \in Edits
    /\ additional_risk_report = calls[1].out
    /\ additional_risk_report # session["initial_risk_report"]

\* C6: when an additional-analysis interaction has ended, no temporary file
\* it created is left on disk.
C6_NoTempFileLeft ==
    (button = "analyze" /\ pc = "idle") => tmpfiles = {}

\* C7: the exporters and the cleanup run only in an additional-analysis
\* interaction, entered only while the session holds a non-empty contract, in
\* the order risk re-check, finalize, save_as_word, save_as_pdf, cleanup; the
\* re-check and finalize are given the reviewed contract and both exporters
\* finalize's output.
C7_ExportOrder ==
    /\ (pc \in {"recheck", "finalize", "save_word", "offer_word", "save_pdf",
                "offer_pdf", "cleanup"}
          \/ \E i \in 1..Len(calls) : calls[i].step \notin Steps) =>
         (button = "analyze" /\ HasContract)
    /\ button = "analyze" =>
         /\ Len(calls) <= 5
         /\ \A i \in 1..Len(calls) : calls[i].step = ExportOrder[i]
         /\ Len(calls) >= 1 => calls[1].arg = reviewed_contract
         /\ Len(calls) >= 2 => calls[2].arg = reviewed_contract
         /\ Len(calls) >= 3 => calls[3].arg = calls[2].out
         /\ Len(calls) >= 4 => calls[4].arg = calls[2].out
         /\ pc = "save_word" => Len(calls) = 2
         /\ pc = "save_pdf" => Len(calls) = 3
         /\ pc = "cleanup" => Len(calls) = 4

\* C7 witness: both exporters have run on a final contract that differs from
\* the edited text it was made from.
C7_Witness ==
    /\ button = "analyze" /\ pc = "cleanup" /\ Len(calls) = 4
    /\ reviewed_contract \in Edits
    /\ calls[2].out = <<"A">>
    /\ calls[3].arg = <<"A">> /\ calls[4].arg = <<"A">>
    /\ Truthy(word_file) /\ Truthy(pdf_file)

\* C8: without the API key no run gets past the start-up check: no LLM call,
\* no load of the Template Store, no temporary file, session state untouched.
C8_NoKeyNoProcessing ==
    ~apiKey =>
      /\ pc \in {"idle", "main"}
      /\ calls = << >>
      /\ \A s \in Steps : DOMAIN contacts[s] = {} /\ DOMAIN cache[s] = {}
      /\ loadLlmCalls = 0
      /\ ~loaded.done
      /\ tmpfiles = {}
      /\ session = EmptyMap

\* C8 witness: two interactions, the last a press of Process, have ended
\* without a key.
C8_Witness == ~apiKey /\ runs = 2 /\ pc = "idle" /\ button = "process"

\* C9: save_as_pdf draws the lines of contract.split('\n') once each and in
\* input order; a line is drawn 15pt below the one before it unless that
\* would be below the 40pt margin, and exactly then it opens a new page at
\* the top; the first line lies 60pt below the title, and every line is
\* drawn at a height between 40 and the page height less 40.
C9_PdfLayout ==
    pdf.phase \in {"body", "done"} =>
      /\ Len(pdf.drawn) <= pdf.n + 1
      /\ pdf.phase = "done" => Len(pdf.drawn) = pdf.n + 1
      /\ pdf.titleY = 752 /\ pdf.stampY = 722
      /\ \A i \in 1..Len(pdf.drawn) :
           LET d == pdf.drawn[i]
           IN  /\ d.text = LineOf(pdf.pattern, i - 1)
               /\ 40 <= d.y /\ d.y <= 792 - 40
               /\ i = 1 => (d.y = pdf.titleY - 60 /\ d.page = 1)
               /\ i > 1 =>
                    LET q == pdf.drawn[i - 1]
                    IN  IF q.y - 15 < 40
                        THEN d.page = q.page + 1 /\ d.y = 792 - 40
                        ELSE d.page = q.page /\ d.y = q.y - 15

\* C9 witness: a text whose lines differ has been drawn to the end, over
\* three pages, the 45th line opening the second.
C9_Witness ==
    /\ pdf.phase = "done" /\ pdf.pattern = "mixed"
    /\ Len(pdf.drawn) >= 94
    /\ pdf.drawn[44].page = 1 /\ pdf.drawn[44].y = 47
    /\ pdf.drawn[45].page = 2 /\ pdf.drawn[45].y = 752
    /\ pdf.drawn[Len(pdf.drawn)].page = 3

\* C10: the backend is contacted at most once for each argument of a memoized
\* step, and every invocation of such a step returns what its first
\* invocation with that argument returned, the fallback of a failed one
\* included; generate_template contacts the backend at each invocation.
C10_Memoization ==
    /\ \A s \in Steps : \A a \in DOMAIN contacts[s] : contacts[s][a].n = 1
    /\ \A i \in 1..Len(calls) :
         LET c == calls[i]
         IN  c.step \in Steps =>
               IF c.step = "generate_template" THEN c.backend
               ELSE /\ c.arg \in DOMAIN contacts[c.step]
                    /\ c.out = contacts[c.step][c.arg].first

\* C10 witness: in a second run on the same proposal classify returned the
\* "default" of its failed first invocation without a backend call, and
\* generate_template, contacted again, returned a template other than the
\* one the first run populated.
C10_Witness ==
    /\ button = "process" /\ pc = "populate" /\ runs = 2 /\ Len(calls) = 2
    /\ calls[1].step = "classify" /\ ~calls[1].backend /\ calls[1].out = Default
    /\ calls[2].step = "generate_template" /\ calls[2].backend
    /\ \E k \in DOMAIN cache["populate"] : k[2] = proposal /\ k[1] # calls[2].out

====
